---- MODULE Spec2Model ----
(***************************************************************************)
(* Model of rasa/shared/core/flows/yaml_flows_io.py:                       *)
(*   - YAMLFlowsReader.read_from_file / read_from_string (the staged read  *)
(*     pipeline and its exception handling),                               *)
(*   - YAMLFlowsReader.humanize_flow_error and its nested helpers,         *)
(*   - YamlFlowsWriter.dumps and the write/read round trip.                *)
(***************************************************************************)
EXTENDS Integers, Sequences, FiniteSets, TLC

VARIABLES
    \* ---- reader pipeline (read_from_file / read_from_string)
    pc,               \* position of the call in progress
    viaFile,          \* TRUE when the caller entered through read_from_file
    filename,         \* argument of read_from_file ("" for read_from_string)
    skip_validation,  \* argument skip_validation
    ran,              \* history: the stages that were executed, in order
    raised,           \* history: the exception as the failing stage raised it
    exc,              \* the exception in flight / delivered to the caller
    result,           \* "none" or "flows": what the call returned
    calls,            \* number of calls started so far
    \* ---- humanize_flow_error
    hpc,              \* "idle" | "ready" | "done"
    error,            \* the jsonschema.ValidationError being humanized
    expected,         \* local `expected` of expected_schema (line 144)
    message,          \* the returned string
    \* ---- dumps / read_from_string round trip
    wpc,              \* "idle" | "start" | "dumped" | "read"
    flows,            \* the List[Flow] handed to dumps
    yaml,             \* the text dumps returned
    readback          \* the FlowsList read back from that text

readerVars == <<pc, viaFile, filename, skip_validation, ran, raised, exc, result, calls>>
humVars    == <<hpc, error, expected, message>>
rtVars     == <<wpc, flows, yaml, readback>>
vars       == <<readerVars, humVars, rtVars>>

(***************************************************************************)
(* Bounds of the model.                                                    *)
(***************************************************************************)
MaxCalls   == 2   \* calls of the reader explored in one behaviour
MaxPathLen == 3   \* longest error.absolute_path
MaxAlts    == 2   \* longest oneOf / anyOf alternative list
MaxFlows   == 2   \* longest list handed to dumps

\* Python's None, as returned by dict.get without a hit.
None == "<None>"

\* d.get(k, default) of a Python dict modelled as a function.
Get(d, k, default) == IF k \in DOMAIN d THEN d[k] ELSE default

KEY_FLOWS == "flows"

(***************************************************************************)
(* Reader pipeline.                                                        *)
(***************************************************************************)
\* The classes the two except clauses of read_from_file tell apart:
\* YamlException (markup / schema errors), any other RasaException, and
\* exceptions outside the RasaException hierarchy (AttributeError of
\* line 214 on a non-mapping document, OSError, parser errors, ...).
ExcClasses == {"YamlException", "RasaException", "Exception"}

FileNames == {"flows.yml", "data/flows.yml"}

NoExc == [cls |-> "", stage |-> "", filename |-> "", cause_cls |-> "", cause_stage |-> ""]

\* An exception as a collaborator raises it in `stage`: no filename, no cause.
NewExc(cls, stage) ==
    [cls |-> cls, stage |-> stage, filename |-> "", cause_cls |-> "", cause_stage |-> ""]

ReaderInit ==
    /\ pc = "idle"
    /\ viaFile = FALSE
    /\ filename = ""
    /\ skip_validation = FALSE
    /\ ran = <<>>
    /\ raised = NoExc
    /\ exc = NoExc
    /\ result = "none"
    /\ calls = 0

HumIdle ==
    /\ hpc = "idle"
    /\ error = [validator |-> "", absolute_path |-> <<>>, schema |-> <<>>,
                instance |-> [kind |-> "scalar", text |-> ""], message |-> ""]
    /\ expected = <<>>
    /\ message = ""

RtIdle ==
    /\ wpc = "idle"
    /\ flows = <<>>
    /\ yaml = <<>>
    /\ readback = <<>>

\* Where an exception raised inside read_from_string goes next: into the
\* try block of read_from_file (lines 37-48) or straight to the caller.
Unwind == IF viaFile THEN "rf_except" ELSE "raised"

\* A stage either returns (control moves to `next`) or raises an
\* exception of some class, which ends read_from_string.
RunStage(stage, next) ==
    /\ ran' = Append(ran, stage)
    /\ \/ /\ pc' = next
          /\ UNCHANGED <<raised, exc>>
       \/ \E cls \in ExcClasses :
            /\ raised' = NewExc(cls, stage)
            /\ exc' = NewExc(cls, stage)
            /\ pc' = Unwind
    /\ UNCHANGED <<viaFile, filename, skip_validation, result, calls>>

SkipStage(next) ==
    /\ pc' = next
    /\ UNCHANGED <<viaFile, filename, skip_validation, ran, raised, exc, result, calls>>

\* A caller invokes read_from_string(string, skip_validation) directly.
CallReadFromString ==
    /\ pc = "idle"
    /\ calls < MaxCalls
    /\ \E s \in BOOLEAN : skip_validation' = s
    /\ viaFile' = FALSE
    /\ filename' = ""
    /\ pc' = "rs_schema"
    /\ calls' = calls + 1
    /\ UNCHANGED <<ran, raised, exc, result>>

\* A caller invokes read_from_file(filename, skip_validation).
CallReadFromFile ==
    /\ pc = "idle"
    /\ calls < MaxCalls
    /\ \E s \in BOOLEAN : skip_validation' = s
    /\ \E f \in FileNames : filename' = f
    /\ viaFile' = TRUE
    /\ pc' = "rf_read"
    /\ calls' = calls + 1
    /\ UNCHANGED <<ran, raised, exc, result>>

\* rasa.shared.utils.io.read_file(filename, DEFAULT_ENCODING), lines 39-41.
ReadFile ==
    /\ pc = "rf_read"
    /\ RunStage("read_file", "rs_schema")

\* Lines 207-210: validate_yaml_with_jsonschema unless skip_validation.
SchemaValidate ==
    /\ pc = "rs_schema"
    /\ IF skip_validation
         THEN SkipStage("rs_parse")
         ELSE RunStage("schema_validate", "rs_parse")

\* Line 212: read_yaml(string).
ReadYaml ==
    /\ pc = "rs_parse"
    /\ RunStage("parse", "rs_build")

\* Line 214: FlowsList.from_json(yaml_content.get(KEY_FLOWS, {})).
FromJson ==
    /\ pc = "rs_build"
    /\ RunStage("build", "rs_semantic")

\* Mutant of Validate: semantic validation ignores skip_validation.
Validate_mut ==
    /\ pc = "rs_semantic"
    /\ RunStage("semantic_validate", "rs_return")

\* Lines 215-216: flows.validate() unless skip_validation.
Validate ==
    /\ pc = "rs_semantic"
    /\ IF skip_validation
         THEN SkipStage("rs_return")
         ELSE RunStage("semantic_validate", "rs_return")

\* Line 217 (and line 38 for read_from_file): return flows.
Return ==
    /\ pc = "rs_return"
    /\ pc' = "returned"
    /\ result' = "flows"
    /\ UNCHANGED <<viaFile, filename, skip_validation, ran, raised, exc, calls>>

\* Mutant of HandledExc: the second except clause re-raises the caught
\* RasaException instead of raising YamlException(filename) from it.
HandledExc_mut(e, fname) ==
    IF e.cls = "YamlException" THEN [e EXCEPT !.filename = fname] ELSE e

\* Lines 44-48: the except clauses of read_from_file.
HandledExc(e, fname) ==
    IF e.cls = "YamlException"
      THEN [e EXCEPT !.filename = fname]
      ELSE IF e.cls = "RasaException"
        THEN [cls |-> "YamlException", stage |-> "read_from_file", filename |-> fname,
              cause_cls |-> e.cls, cause_stage |-> e.stage]
        ELSE e

ExceptClauses ==
    /\ pc = "rf_except"
    /\ exc' = HandledExc(exc, filename)
    /\ pc' = "raised"
    /\ UNCHANGED <<viaFile, filename, skip_validation, ran, raised, result, calls>>

\* The call is over; the next call starts from a clean frame.
NextCall ==
    /\ pc \in {"returned", "raised"}
    /\ calls < MaxCalls
    /\ pc' = "idle"
    /\ viaFile' = FALSE
    /\ filename' = ""
    /\ skip_validation' = FALSE
    /\ ran' = <<>>
    /\ raised' = NoExc
    /\ exc' = NoExc
    /\ result' = "none"
    /\ UNCHANGED calls

Init == ReaderInit /\ HumIdle /\ RtIdle

Next ==
    \/ CallReadFromString /\ UNCHANGED <<humVars, rtVars>>
    \/ CallReadFromFile /\ UNCHANGED <<humVars, rtVars>>
    \/ ReadFile /\ UNCHANGED <<humVars, rtVars>>
    \/ SchemaValidate /\ UNCHANGED <<humVars, rtVars>>
    \/ ReadYaml /\ UNCHANGED <<humVars, rtVars>>
    \/ FromJson /\ UNCHANGED <<humVars, rtVars>>
    \/ Validate /\ UNCHANGED <<humVars, rtVars>>
    \/ Return /\ UNCHANGED <<humVars, rtVars>>
    \/ ExceptClauses /\ UNCHANGED <<humVars, rtVars>>
    \/ NextCall /\ UNCHANGED <<humVars, rtVars>>

Spec == Init /\ [][Next]_vars

(***************************************************************************)
(* humanize_flow_error (lines 50-193).                                     *)
(***************************************************************************)
\* One segment of error.absolute_path: a property name (str) or a list
\* index (int).  The same shape stands for the value faulty_property
\* returns, which is a str or, through path[-2], whatever the path holds.
Name(s)  == [isInt |-> FALSE, idx |-> 0, name |-> s]
Index(i) == [isInt |-> TRUE, idx |-> i, name |-> ""]

\* str(v) / f"{v}" of such a value.
PyStr(v) == IF v.isInt THEN ToString(v.idx) ELSE v.name

\* Python orders str by code point; the strings that can reach sorted()
\* in this model, listed in that order.
StrOrder == <<"action step", "collect step", "link step", "object">>

Rank(str) == CHOOSE i \in 1..Len(StrOrder) : StrOrder[i] = str

RECURSIVE InsertSorted(_, _)
InsertSorted(x, s) ==
    IF s = <<>> THEN <<x>>
    ELSE IF Rank(x) <= Rank(Head(s)) THEN <<x>> \o s
    ELSE <<Head(s)>> \o InsertSorted(x, Tail(s))

\* sorted(names) of line 146.
RECURSIVE sorted(_)
sorted(s) == IF s = <<>> THEN <<>> ELSE InsertSorted(Head(s), sorted(Tail(s)))

\* sep.join(parts) of line 146.
RECURSIVE join(_, _)
join(sep, parts) ==
    IF parts = <<>> THEN ""
    ELSE IF Len(parts) = 1 THEN parts[1]
    ELSE parts[1] \o sep \o join(sep, Tail(parts))

\* Mutant of faulty_property: an element of a list is always reported
\* under the generic "list" label.
faulty_property_mut(path) ==
    IF path = <<>> THEN Name("schema")
    ELSE IF path[Len(path)].isInt THEN Name("list")
    ELSE Name(PyStr(path[Len(path)]))

\* Lines 68-90.
faulty_property(path) ==
    IF path = <<>> THEN Name("schema")
    ELSE IF path[Len(path)].isInt
      THEN IF Len(path) > 1 THEN path[Len(path) - 1] ELSE Name("list")
      ELSE Name(PyStr(path[Len(path)]))

\* Mutant of schema_name: an empty schema_name falls back to the type.
schema_name_mut(schema) ==
    IF "schema_name" \in DOMAIN schema /\ schema["schema_name"] # ""
      THEN schema["schema_name"]
      ELSE Get(schema, "type", None)

\* Line 115: schema.get("schema_name", schema.get("type")).
schema_name(schema) == Get(schema, "schema_name", Get(schema, "type", None))

\* Truthiness of `name` in `if name := schema_name(schema)` (line 137).
Truthy(name) == name # None /\ name # ""

\* Lines 135-139.
RECURSIVE schema_names(_)
schema_names(schemas) ==
    IF schemas = <<>> THEN <<>>
    ELSE LET name == schema_name(Head(schemas))
         IN  (IF Truthy(name) THEN <<name>> ELSE <<>>) \o schema_names(Tail(schemas))

\* repr of a str, and of a list given the repr of its items.
ReprStr(str) == "'" \o str \o "'"
ReprList(items) == "[" \o join(", ", items) \o "]"

\* str(error.schema) of line 148: the repr of the schema dict (keys in the
\* order schema_name, type, oneOf, anyOf).
RECURSIVE str_schema(_)
str_schema(schema) ==
    LET sub(k) == ReprList([i \in 1..Len(schema[k]) |-> str_schema(schema[k][i])])
        items ==
            (IF "schema_name" \in DOMAIN schema
               THEN <<"'schema_name': " \o ReprStr(schema["schema_name"])>> ELSE <<>>)
            \o (IF "type" \in DOMAIN schema
               THEN <<"'type': " \o ReprStr(schema["type"])>> ELSE <<>>)
            \o (IF "oneOf" \in DOMAIN schema THEN <<"'oneOf': " \o sub("oneOf")>> ELSE <<>>)
            \o (IF "anyOf" \in DOMAIN schema THEN <<"'anyOf': " \o sub("anyOf")>> ELSE <<>>)
    IN  "{" \o join(", ", items) \o "}"

\* Mutant of expected_schema: the names are joined in schema order.
expected_schema_mut(err, schema_type) ==
    LET names == schema_names(Get(err.schema, schema_type, <<>>))
    IN  IF names # <<>> THEN join(" or ", names) ELSE str_schema(err.schema)

\* Lines 141-148.
expected_schema(err, schema_type) ==
    LET expected_schemas == Get(err.schema, schema_type, <<>>)
        names == schema_names(expected_schemas)
    IN  IF names # <<>> THEN join(" or ", sorted(names)) ELSE str_schema(err.schema)

\* Lines 150-155.
format_oneof_error(err) ==
    "Not a valid '" \o PyStr(faulty_property(err.absolute_path)) \o "' definition. "
    \o "Expected " \o expected_schema(err, "oneOf") \o "."

\* Lines 157-162.
format_anyof_error(err) ==
    "Not a valid '" \o PyStr(faulty_property(err.absolute_path)) \o "' definition. "
    \o "Expected " \o expected_schema(err, "anyOf") \o "."

\* The backquote character of line 172; a TLA+ string literal cannot hold
\* it, so the grave accent is written as a circumflex.
Backquote == "^"

\* str(None) is "None"; every other name is already a str.
StrOf(v) == IF v = None THEN "None" ELSE v

\* Mutant of format_type_error: the dict and list tests are exchanged.
format_type_error_mut(err) ==
    LET expected_value == schema_name(err.schema)
        instance == IF err.instance.kind = "list" THEN "a dictionary"
                    ELSE IF err.instance.kind = "dict" THEN "a list"
                    ELSE Backquote \o err.instance.text \o Backquote
    IN  "Found " \o instance \o " but expected a " \o StrOf(expected_value) \o "."

\* Lines 164-173.
format_type_error(err) ==
    LET expected_value == schema_name(err.schema)
        instance == IF err.instance.kind = "dict" THEN "a dictionary"
                    ELSE IF err.instance.kind = "list" THEN "a list"
                    ELSE Backquote \o err.instance.text \o Backquote
    IN  "Found " \o instance \o " but expected a " \o StrOf(expected_value) \o "."

\* ValidationError.json_path of jsonschema: a dollar sign, then .name or
\* [index] for each segment of the absolute path.
RECURSIVE json_path_from(_)
json_path_from(path) ==
    IF path = <<>> THEN ""
    ELSE (IF Head(path).isInt THEN "[" \o ToString(Head(path).idx) \o "]"
                              ELSE "." \o Head(path).name)
         \o json_path_from(Tail(path))

json_path(err) == "$" \o json_path_from(err.absolute_path)

\* Mutant of humanize_flow_error: the "required" arm is missing.
humanize_flow_error_mut(err) ==
    IF err.validator = "oneOf" THEN format_oneof_error(err)
    ELSE IF err.validator = "anyOf" THEN format_anyof_error(err)
    ELSE IF err.validator = "type" THEN format_type_error(err)
    ELSE IF err.validator = "additionalProperties" THEN err.message
    ELSE "The flow at " \o json_path(err) \o " is not valid. "
         \o "Please double check your flow definition."

\* Lines 175-193.
humanize_flow_error(err) ==
    IF err.validator = "oneOf" THEN format_oneof_error(err)
    ELSE IF err.validator = "anyOf" THEN format_anyof_error(err)
    ELSE IF err.validator = "type" THEN format_type_error(err)
    ELSE IF err.validator = "additionalProperties" THEN err.message
    ELSE IF err.validator = "required" THEN err.message
    ELSE "The flow at " \o json_path(err) \o " is not valid. "
         \o "Please double check your flow definition."

\* ---- the validation errors the schema validator can hand over
Segments == {Name("steps"), Name("next"), Index(0)}

Paths == UNION {[1..n -> Segments] : n \in 0..MaxPathLen}

\* Alternatives of a oneOf / anyOf list: with a schema_name, with an empty
\* one (the schema file uses "" to keep an alternative out of messages),
\* with only a type, with neither.
AltSchemas ==
    { [schema_name |-> "action step"], [schema_name |-> "collect step"],
      [schema_name |-> ""], [schema_name |-> "", type |-> "object"],
      [type |-> "object"], <<>> }

\* JSON Schema requires a oneOf / anyOf list to hold at least one schema.
AltLists == UNION {[1..n -> AltSchemas] : n \in 1..MaxAlts}

OtherBranch == <<[schema_name |-> "link step"]>>

OtherKeyword(v) == IF v = "oneOf" THEN "anyOf" ELSE "oneOf"

\* The schemas a failed oneOf / anyOf keyword v can sit in: the list under
\* v, alone or beside a list under the other keyword.
AlternativeSchemas(v) ==
    {[k \in {v} |-> a] : a \in AltLists}
    \cup {[k \in {v, OtherKeyword(v)} |-> IF k = v THEN a ELSE OtherBranch] : a \in AltLists}

TypeSchemas ==
    { [type |-> "array"], [type |-> "array", schema_name |-> "list of steps"],
      [type |-> "array", schema_name |-> ""] }

Instances ==
    { [kind |-> "dict", text |-> "{'a': 1}"], [kind |-> "list", text |-> "['a']"],
      [kind |-> "scalar", text |-> "not-a-list"], [kind |-> "scalar", text |-> "3"] }

LibraryMessages == {"'steps' is a required property",
                    "Additional properties are not allowed ('foo' was unexpected)"}

DefaultInstance == [kind |-> "dict", text |-> "{'a': 1}"]

\* A jsonschema error names the keyword that failed, and its schema holds
\* that keyword; the fields a handler does not read are held fixed.
ValidationErrors ==
    UNION { { [validator |-> v, absolute_path |-> p, schema |-> sc,
                instance |-> DefaultInstance,
                message |-> "is not valid under any of the given schemas"] :
                  p \in Paths, sc \in AlternativeSchemas(v) } : v \in {"oneOf", "anyOf"} }
    \cup
    { [validator |-> "type", absolute_path |-> p, schema |-> sc,
       instance |-> i, message |-> "is not of type 'array'"] :
         p \in Paths, sc \in TypeSchemas, i \in Instances }
    \cup
    { [validator |-> v, absolute_path |-> p, schema |-> [type |-> "object"],
       instance |-> DefaultInstance, message |-> m] :
         v \in {"additionalProperties", "required"}, p \in Paths, m \in LibraryMessages }
    \cup
    { [validator |-> v, absolute_path |-> p, schema |-> [type |-> "array"],
       instance |-> DefaultInstance, message |-> "is too short"] :
         v \in {"enum", "minItems"}, p \in Paths }

HumanizeInit ==
    /\ hpc = "ready"
    /\ error \in ValidationErrors
    /\ expected = <<>>
    /\ message = ""

\* The validator calls humanize_error=cls.humanize_flow_error on the error.
Humanize ==
    /\ hpc = "ready"
    /\ message' = humanize_flow_error(error)
    /\ expected' = IF error.validator \in {"oneOf", "anyOf"}
                     THEN schema_names(Get(error.schema, error.validator, <<>>))
                     ELSE <<>>
    /\ hpc' = "done"
    /\ UNCHANGED error

InitHumanize == ReaderInit /\ HumanizeInit /\ RtIdle

NextHumanize == Humanize /\ UNCHANGED <<readerVars, rtVars>>

SpecHumanize == InitHumanize /\ [][NextHumanize]_vars

(***************************************************************************)
(* YamlFlowsWriter.dumps (lines 223-238) and reading its output back.      *)
(***************************************************************************)
\* A Python dict that is built entry by entry: the (key, value) pairs in
\* insertion order; assigning to a key it holds replaces the value in place.
DictKeys(d) == {d[i].key : i \in 1..Len(d)}

DictSet(d, k, v) ==
    IF k \in DictKeys(d)
      THEN [i \in 1..Len(d) |-> IF d[i].key = k THEN [key |-> k, value |-> v] ELSE d[i]]
      ELSE Append(d, [key |-> k, value |-> v])

\* Flow.as_json(): the mapping form of a flow, identifier included.
as_json(flow) == [id |-> flow.id, name |-> flow.name, steps |-> flow.steps]

\* Flow.from_json(flow_id, flow_config): the identifier comes from the key.
Flow_from_json(flow_id, flow_config) ==
    [id |-> flow_id, name |-> flow_config["name"], steps |-> flow_config["steps"]]

\* FlowsList.from_json(data): one flow per entry of the mapping, in its order.
FlowsList_from_json(data) ==
    [i \in 1..Len(data) |-> Flow_from_json(data[i].key, data[i].value)]

\* del d[k] on a mapping held as a function.
Del(d, k) == [x \in DOMAIN d \ {k} |-> d[x]]

\* The order in which the keys of a flow body are written.
BodyKeys == <<"id", "name", "steps">>

\* One line of block-style YAML: indentation, key, and the scalar after the
\* colon (empty when a nested mapping follows).
Line(indent, key, value) == [indent |-> indent, key |-> key, value |-> value]

BodyLines(body) ==
    LET present == SelectSeq(BodyKeys, LAMBDA k : k \in DOMAIN body)
    IN  [i \in 1..Len(present) |-> Line(4, present[i], body[present[i]])]

RECURSIVE EntryLines(_)
EntryLines(d) ==
    IF d = <<>> THEN <<>>
    ELSE <<Line(2, d[1].key, "")>> \o BodyLines(d[1].value) \o EntryLines(Tail(d))

\* rasa.shared.utils.io.dump_obj_as_yaml_to_string({KEY_FLOWS: dump}).
dump_obj_as_yaml_to_string(dump) ==
    IF dump = <<>> THEN <<Line(0, KEY_FLOWS, "{}")>>
    ELSE <<Line(0, KEY_FLOWS, "")>> \o EntryLines(dump)

\* The loop of lines 234-237 over flows[1..n].
RECURSIVE dump_loop(_, _)
dump_loop(flowlist, n) ==
    IF n = 0 THEN <<>>
    ELSE LET flow == flowlist[n]
             dumped_flow == Del(as_json(flow), "id")
         IN  DictSet(dump_loop(flowlist, n - 1), flow.id, dumped_flow)

\* Mutant of dumps: the entry is stored under the flow's name.
dumps_mut(flowlist) ==
    LET loop[n \in 0..Len(flowlist)] ==
            IF n = 0 THEN <<>>
            ELSE DictSet(loop[n - 1], flowlist[n].name, Del(as_json(flowlist[n]), "id"))
    IN  dump_obj_as_yaml_to_string(loop[Len(flowlist)])

\* Lines 233-238.
dumps(flowlist) == dump_obj_as_yaml_to_string(dump_loop(flowlist, Len(flowlist)))

\* rasa.shared.utils.io.read_yaml(string): the top-level mapping; the value
\* of a key followed by deeper lines is the mapping those lines spell.
RECURSIVE ParseEntries(_, _)
ParseEntries(lines, acc) ==
    IF lines = <<>> THEN acc
    ELSE LET l == Head(lines)
         IN  IF l.indent = 2
               THEN ParseEntries(Tail(lines), Append(acc, [key |-> l.key, value |-> <<>>]))
               ELSE LET last == acc[Len(acc)]
                        grown == [x \in DOMAIN last.value \cup {l.key} |->
                                    IF x = l.key THEN l.value ELSE last.value[x]]
                    IN  ParseEntries(Tail(lines),
                                     [acc EXCEPT ![Len(acc)] = [key |-> last.key, value |-> grown]])

read_yaml(string) ==
    IF string = <<>> THEN <<>>
    ELSE [k \in {Head(string).key} |->
            IF Head(string).value = "{}" THEN <<>> ELSE ParseEntries(Tail(string), <<>>)]

\* Lines 212-217 on a document both validations accept: the value returned.
read_from_string(string, skip) ==
    LET yaml_content == read_yaml(string)
    IN  FlowsList_from_json(Get(yaml_content, KEY_FLOWS, <<>>))

FlowIds   == {"greet", "bye", "help"}
FlowNames == {"Greet", "Other"}

Flows == [id : FlowIds, name : FlowNames, steps : {"say hello"}]

FlowLists == UNION {[1..n -> Flows] : n \in 0..MaxFlows}

RoundTripInit ==
    /\ wpc = "start"
    /\ flows \in FlowLists
    /\ yaml = <<>>
    /\ readback = <<>>

\* YamlFlowsWriter.dumps(flows).
Dumps ==
    /\ wpc = "start"
    /\ yaml' = dumps(flows)
    /\ wpc' = "dumped"
    /\ UNCHANGED <<flows, readback>>

\* YAMLFlowsReader.read_from_string(yaml, skip_validation).
ReadBack ==
    /\ wpc = "dumped"
    /\ \E skip \in BOOLEAN : readback' = read_from_string(yaml, skip)
    /\ wpc' = "read"
    /\ UNCHANGED <<flows, yaml>>

InitRoundTrip == ReaderInit /\ HumIdle /\ RoundTripInit

NextRoundTrip ==
    \/ Dumps /\ UNCHANGED <<readerVars, humVars>>
    \/ ReadBack /\ UNCHANGED <<readerVars, humVars>>

SpecRoundTrip == InitRoundTrip /\ [][NextRoundTrip]_vars

(***************************************************************************)
(* Claims about the reader pipeline (specification Spec).                  *)
(***************************************************************************)
\* The stages of read_from_string, without the read_file of read_from_file.
StagesOfString == SelectSeq(ran, LAMBDA st : st # "read_file")

\* The stages a complete call runs, in order, as the contract states them.
Planned(skip) ==
    IF skip THEN <<"parse", "build">>
            ELSE <<"schema_validate", "parse", "build", "semantic_validate">>

IsPrefix(s, t) == Len(s) <= Len(t) /\ SubSeq(t, 1, Len(s)) = s

\* C1: read_from_string runs schema-validate, parse, build, semantic-validate
\* in that order; a failing stage is the last stage that runs and the call
\* ends with its exception; with skip_validation exactly the two validation
\* stages are left out; a collection is returned only when every planned
\* stage ran and none raised.
C1_StageOrder ==
    /\ IsPrefix(StagesOfString, Planned(skip_validation))
    /\ raised # NoExc =>
         /\ ran # <<>> /\ ran[Len(ran)] = raised.stage
         /\ result = "none"
         /\ pc \in {"rf_except", "raised"}
    /\ pc = "raised" => raised # NoExc /\ exc # NoExc
    /\ result = "flows" =>
         /\ StagesOfString = Planned(skip_validation)
         /\ raised = NoExc
         /\ pc = "returned"

\* C1 witness: a call with skip_validation returned after parse and build only.
C1_Witness ==
    /\ pc = "returned" /\ result = "flows" /\ skip_validation
    /\ StagesOfString = <<"parse", "build">>

\* C2 (as claimed): every failure leaving read_from_file carries the file
\* path: a YamlException is the same error annotated, anything else is
\* wrapped into a YamlException naming the path with the original as cause.
C2_EveryFailureCarriesPath ==
    (pc = "raised" /\ viaFile) =>
        /\ exc.filename = filename
        /\ raised.cls = "YamlException" => exc = [raised EXCEPT !.filename = filename]
        /\ raised.cls # "YamlException" =>
             /\ exc.cls = "YamlException"
             /\ exc.cause_cls = raised.cls /\ exc.cause_stage = raised.stage

\* C3 (as claimed): a semantic validation error reaches the caller unmodified,
\* through read_from_string and through read_from_file alike.
C3_SemanticErrorUnmodified ==
    (pc = "raised" /\ raised.stage = "semantic_validate") => exc = raised

\* C3 (amended): through read_from_string the semantic error is delivered
\* unmodified; through read_from_file it is delivered as the except clauses
\* leave it: a YamlException is the same error with filename set, any other
\* RasaException is replaced by a YamlException naming the file with the
\* semantic error as its cause, and an exception outside the RasaException
\* hierarchy is delivered unmodified.
C3_SemanticErrorDelivery ==
    (pc = "raised" /\ raised.stage = "semantic_validate") =>
        /\ ~viaFile => exc = raised
        /\ (viaFile /\ raised.cls = "YamlException") =>
             exc = [raised EXCEPT !.filename = filename]
        /\ (viaFile /\ raised.cls = "RasaException") =>
             /\ exc.cls = "YamlException" /\ exc.filename = filename
             /\ exc.cause_cls = "RasaException"
             /\ exc.cause_stage = "semantic_validate"
             /\ exc # raised
        /\ (viaFile /\ raised.cls = "Exception") => exc = raised

\* C3 witness: read_from_file delivered a semantic RasaException.
C3_Witness ==
    /\ pc = "raised" /\ viaFile
    /\ raised.stage = "semantic_validate" /\ raised.cls = "RasaException"

(***************************************************************************)
(* Claims about humanize_flow_error (specification SpecHumanize).          *)
(***************************************************************************)
Humanized(v) == hpc = "done" /\ error.validator = v

HumanizedAlternatives == hpc = "done" /\ error.validator \in {"oneOf", "anyOf"}

\* The alternative list the failed keyword names.
Alternatives == error.schema[error.validator]

AllDeclareName ==
    \A i \in 1..Len(Alternatives) : "schema_name" \in DOMAIN Alternatives[i]

DeclaredNames == {Alternatives[i]["schema_name"] : i \in 1..Len(Alternatives)}

NotValidMessage(property, alternatives) ==
    "Not a valid '" \o property \o "' definition. Expected " \o alternatives \o "."

\* The members of a set of names in code point order, each once.
RECURSIVE SortedSet(_)
SortedSet(S) ==
    IF S = {} THEN <<>>
    ELSE LET least == CHOOSE x \in S : \A y \in S : Rank(x) <= Rank(y)
         IN  <<least>> \o SortedSet(S \ {least})

Repeat(x, n) == [i \in 1..n |-> x]

\* The names in code point order, each as often as the list declares it.
RECURSIVE SortedOccurrences(_, _)
SortedOccurrences(S, alts) ==
    IF S = {} THEN <<>>
    ELSE LET least == CHOOSE x \in S : \A y \in S : Rank(x) <= Rank(y)
             count == Cardinality({i \in 1..Len(alts) : alts[i]["schema_name"] = least})
         IN  Repeat(least, count) \o SortedOccurrences(S \ {least}, alts)

\* C4 (as claimed): for a oneOf / anyOf failure whose alternatives all declare
\* a schema_name, the message lists the sorted, deduplicated set of those
\* names joined by " or " (stated for non-empty names).
C4_SortedDeduplicated ==
    (HumanizedAlternatives /\ AllDeclareName /\ "" \notin DeclaredNames) =>
        message = NotValidMessage(PyStr(faulty_property(error.absolute_path)),
                                  join(" or ", SortedSet(DeclaredNames)))

\* C4 (amended): the message lists the non-empty declared names of the
\* matching branch in sorted order, joined by " or ", every occurrence kept
\* (a name two alternatives declare appears twice); when no declared name is
\* non-empty it shows the rendering of the schema instead.
C4_SortedOccurrences ==
    (HumanizedAlternatives /\ AllDeclareName) =>
        LET names == SortedOccurrences(DeclaredNames \ {""}, Alternatives)
        IN  message = NotValidMessage(
                          PyStr(faulty_property(error.absolute_path)),
                          IF names # <<>> THEN join(" or ", names)
                                          ELSE str_schema(error.schema))

\* C4 witness: the anyOf branch declares its names out of order while the
\* schema also holds a oneOf branch.
C4_Witness ==
    /\ Humanized("anyOf") /\ AllDeclareName
    /\ Alternatives = <<[schema_name |-> "collect step"], [schema_name |-> "action step"]>>
    /\ "oneOf" \in DOMAIN error.schema
    /\ error.absolute_path = <<Name("next")>>
    /\ message = "Not a valid 'next' definition. Expected action step or collect step."

C6_DispatchState ==
    hpc = "done" =>
        CASE error.validator \in {"oneOf", "anyOf"} ->
               message = NotValidMessage(PyStr(faulty_property(error.absolute_path)),
                                         expected_schema(error, error.validator))
          [] error.validator = "type" ->
               \E found \in {"a dictionary", "a list",
                             Backquote \o error.instance.text \o Backquote} :
                   message = "Found " \o found \o " but expected a "
                             \o StrOf(schema_name(error.schema)) \o "."
          [] error.validator \in {"additionalProperties", "required"} ->
               message = error.message
          [] OTHER ->
               message = "The flow at " \o json_path(error)
                         \o " is not valid. Please double check your flow definition."

C6_Dispatch == [](C6_DispatchState) /\ [][error' = error]_vars

\* C6 witness: a missing required property was humanized.
C6_Witness ==
    /\ Humanized("required")
    /\ message = "'steps' is a required property"

\* faultyProperty as the contract states it.
ContractFaultyProperty(path) ==
    CASE path = <<>> -> Name("schema")
      [] path # <<>> /\ path[Len(path)].isInt /\ Len(path) > 1 -> path[Len(path) - 1]
      [] path # <<>> /\ path[Len(path)].isInt /\ Len(path) = 1 -> Name("list")
      [] OTHER -> Name(path[Len(path)].name)

ContractDisplayName(schema) ==
    IF "schema_name" \in DOMAIN schema /\ schema["schema_name"] # ""
      THEN schema["schema_name"]
      ELSE IF "type" \in DOMAIN schema THEN schema["type"] ELSE None

\* displayName as amended: a declared schema_name is used even when empty.
DeclaredDisplayName(schema) ==
    IF "schema_name" \in DOMAIN schema THEN schema["schema_name"]
    ELSE IF "type" \in DOMAIN schema THEN schema["type"] ELSE None

MapSeq(Op(_), s) == [i \in 1..Len(s) |-> Op(s[i])]

\* No display name: nothing was found, or what was found is empty.
Absent(name) == name = None \/ name = ""

\* C9 (as claimed): the display name is the schema_name when present and
\* non-empty, else the type, else absent; the names of a list are the
\* display names that are not absent, in input order.
C9_DisplayNameNonEmpty ==
    HumanizedAlternatives =>
        /\ \A i \in 1..Len(Alternatives) :
             \/ schema_name(Alternatives[i]) = ContractDisplayName(Alternatives[i])
             \/ /\ Absent(schema_name(Alternatives[i]))
                /\ Absent(ContractDisplayName(Alternatives[i]))
        /\ expected = SelectSeq(MapSeq(ContractDisplayName, Alternatives),
                                LAMBDA n : ~Absent(n))

\* C9 (amended): the display name is the schema_name whenever that field is
\* present (also when it is empty), else the type, else absent; the names of
\* a list are the display names that are neither absent nor empty, in input
\* order.
C9_DisplayNameDeclared ==
    HumanizedAlternatives =>
        /\ \A i \in 1..Len(Alternatives) :
             schema_name(Alternatives[i]) = DeclaredDisplayName(Alternatives[i])
        /\ expected = SelectSeq(MapSeq(DeclaredDisplayName, Alternatives),
                                LAMBDA n : n # None /\ n # "")

\* C9 witness: an empty schema_name beside a type, after a named alternative.
C9_Witness ==
    /\ HumanizedAlternatives
    /\ Alternatives = <<[schema_name |-> "collect step"],
                        [schema_name |-> "", type |-> "object"]>>
    /\ expected = <<"collect step">>

HasName(path) == \E i \in 1..Len(path) : ~path[i].isInt

LastName(path) ==
    LET last == CHOOSE i \in 1..Len(path) :
                    ~path[i].isInt /\ \A j \in (i + 1)..Len(path) : path[j].isInt
    IN  Name(path[last].name)

\* C10 (as claimed): the faulty property is never an index: it is the last
\* segment of the path that is not an index, "list" for a non-empty path of
\* indices only, and "schema" for the empty path.
C10_NeverAnIndex ==
    HumanizedAlternatives =>
        LET path == error.absolute_path
            property == faulty_property(path)
        IN  /\ ~property.isInt
            /\ HasName(path) => property = LastName(path)
            /\ (path # <<>> /\ ~HasName(path)) => property = Name("list")
            /\ path = <<>> => property = Name("schema")

(***************************************************************************)
(* Claims about the write / read round trip (specification SpecRoundTrip). *)
(***************************************************************************)
DistinctIds(flowlist) ==
    \A i, j \in 1..Len(flowlist) : flowlist[i].id = flowlist[j].id => i = j

Members(flowlist) == {flowlist[i] : i \in 1..Len(flowlist)}

EntryKeys(text) == SelectSeq(text, LAMBDA l : l.indent = 2)

====
